---- MODULE Spec2Model ----
(***************************************************************************)
(* Model of the code-generation orchestrator of Data_Analyst_Agent_v3:     *)
(* execute_plan_v1 (plan_execution.py) with its provider chain, the        *)
(* subprocess executor/validator _run_and_validate_json and the repair     *)
(* prompt builder _build_repair_prompt.                                    *)
(*                                                                         *)
(* Texts (Python str values) are sequences whose elements are single       *)
(* characters ("{", "4", "\n", ...) or literal chunks of program text      *)
(* that contain no whitespace-only, quote, backslash or newline character  *)
(* ("STDOUT:", "Script exited with non-zero status.").                     *)
(***************************************************************************)
EXTENDS Integers, Sequences, FiniteSets, TLC

(***************************************************************************)
(* Python values                                                           *)
(***************************************************************************)

\* The object None: a value that no text is equal to.
None == <<"<None object>">>

\* bool(v) for v a str or None: plan_execution.py `if not code`.
Truthy(v) == v # None /\ v # <<>>

\* str(v) / f"{v}" for v a str or None.
Str(v) == IF v = None THEN <<"N", "o", "n", "e">> ELSE v

\* `x in s` for a one-element needle.
Has(s, x) == \E i \in 1..Len(s) : s[i] = x

\* `t in s` for texts: t occurs in s as a contiguous run.
Contains(s, t) ==
    \E i \in 0..(Len(s) - Len(t)) : \A j \in 1..Len(t) : s[i + j] = t[j]

\* Characters str.strip() removes, among those the model's texts use.  The
\* form feed is whitespace for str.strip() but not for the JSON decoder.
Whitespace == {" ", "\n", "\t", "\r", "\f"}

RECURSIVE LStrip(_)
LStrip(s) == IF s # <<>> /\ Head(s) \in Whitespace THEN LStrip(Tail(s)) ELSE s

RECURSIVE RStrip(_)
RStrip(s) ==
    IF s # <<>> /\ s[Len(s)] \in Whitespace
    THEN RStrip(SubSeq(s, 1, Len(s) - 1))
    ELSE s

\* str.strip()
Strip(s) == RStrip(LStrip(s))

\* str.lower() on the characters and chunks the model uses.
LowerOf(x) == IF x = "S3://" THEN "s3://" ELSE x
Lower(s) == [i \in 1..Len(s) |-> LowerOf(s[i])]

RECURSIVE Flatten(_)
Flatten(ss) == IF ss = <<>> THEN <<>> ELSE Head(ss) \o Flatten(Tail(ss))

(***************************************************************************)
(* json.loads, as used by _run_and_validate_json (plan_execution.py:165).  *)
(* A text is accepted when it is optional whitespace, one JSON value and   *)
(* optional whitespace.  The operators return the index just after what    *)
(* they matched, or 0 when the decoder raises JSONDecodeError.             *)
(***************************************************************************)

\* s[i:i+1]: the character at i, "" past the end.
At(s, i) == IF i \in 1..Len(s) THEN s[i] ELSE ""

Digits == {"0", "1", "2", "3", "4", "5", "6", "7", "8", "9"}
HexDigits == Digits \cup {"a", "b", "c", "d", "e", "f", "A", "B", "C", "D", "E", "F"}
JsonWhitespace == {" ", "\t", "\n", "\r"}
ControlChars == {"\n", "\t", "\r", "\f"}
EscapeChars == {"\"", "\\", "/", "b", "f", "n", "r", "t"}

\* s.startswith(w, i)
StartsWith(s, i, w) ==
    /\ i + Len(w) - 1 <= Len(s)
    /\ \A j \in 1..Len(w) : s[i + j - 1] = w[j]

RECURSIVE SkipWs(_, _)
SkipWs(s, i) == IF At(s, i) \in JsonWhitespace THEN SkipWs(s, i + 1) ELSE i

RECURSIVE SkipDigits(_, _)
SkipDigits(s, i) == IF At(s, i) \in Digits THEN SkipDigits(s, i + 1) ELSE i

\* NUMBER_RE.match(s, i): (-?(?:0|[1-9]\d*))(\.\d+)?([eE][-+]?\d+)?
MatchNumber(s, i) ==
    LET j == IF At(s, i) = "-" THEN i + 1 ELSE i
    IN  IF At(s, j) \notin Digits THEN 0
        ELSE LET k  == IF s[j] = "0" THEN j + 1 ELSE SkipDigits(s, j)
                 f  == IF At(s, k) = "." /\ At(s, k + 1) \in Digits
                       THEN SkipDigits(s, k + 1) ELSE k
                 g  == IF At(s, f + 1) \in {"+", "-"} THEN f + 2 ELSE f + 1
             IN  IF At(s, f) \in {"e", "E"} /\ At(s, g) \in Digits
                 THEN SkipDigits(s, g) ELSE f

\* scanstring(s, i) with strict=True; i is the index after the opening quote.
RECURSIVE ScanString(_, _)
ScanString(s, i) ==
    LET c == At(s, i)
    IN  IF c = "" THEN 0
        ELSE IF c = "\"" THEN i + 1
        ELSE IF c \in ControlChars THEN 0
        ELSE IF c # "\\" THEN ScanString(s, i + 1)
        ELSE IF At(s, i + 1) \in EscapeChars THEN ScanString(s, i + 2)
        ELSE IF /\ At(s, i + 1) = "u"
                /\ \A d \in 2..5 : At(s, i + d) \in HexDigits
             THEN ScanString(s, i + 6)
        ELSE 0

RECURSIVE ScanOnce(_, _)
RECURSIVE ObjectMembers(_, _)
RECURSIVE ArrayElements(_, _)

\* JSONObject; i is the index after "{".
JSONObject(s, i) ==
    LET j == SkipWs(s, i)
    IN  IF At(s, j) = "}" THEN j + 1
        ELSE IF At(s, j) = "\"" THEN ObjectMembers(s, j + 1)
        ELSE 0

\* One "key": value pair and what follows it; i is the index after the
\* key's opening quote.
ObjectMembers(s, i) ==
    LET k == ScanString(s, i)
        c == SkipWs(s, k)
    IN  IF k = 0 \/ At(s, c) # ":" THEN 0
        ELSE LET v == ScanOnce(s, SkipWs(s, c + 1))
                 n == SkipWs(s, v)
             IN  IF v = 0 THEN 0
                 ELSE IF At(s, n) = "}" THEN n + 1
                 ELSE IF At(s, n) # "," THEN 0
                 ELSE LET q == SkipWs(s, n + 1)
                      IN  IF At(s, q) = "\"" THEN ObjectMembers(s, q + 1) ELSE 0

\* JSONArray; i is the index after "[".
JSONArray(s, i) ==
    LET j == SkipWs(s, i)
    IN  IF At(s, j) = "]" THEN j + 1 ELSE ArrayElements(s, j)

ArrayElements(s, i) ==
    LET v == ScanOnce(s, i)
        n == SkipWs(s, v)
    IN  IF v = 0 THEN 0
        ELSE IF At(s, n) = "]" THEN n + 1
        ELSE IF At(s, n) # "," THEN 0
        ELSE ArrayElements(s, SkipWs(s, n + 1))

\* scan_once(s, i): one JSON value starting exactly at i.
ScanOnce(s, i) ==
    LET c == At(s, i)
    IN  IF c = "" THEN 0
        ELSE IF c = "\"" THEN ScanString(s, i + 1)
        ELSE IF c = "{" THEN JSONObject(s, i + 1)
        ELSE IF c = "[" THEN JSONArray(s, i + 1)
        ELSE IF StartsWith(s, i, <<"n", "u", "l", "l">>) THEN i + 4
        ELSE IF StartsWith(s, i, <<"t", "r", "u", "e">>) THEN i + 4
        ELSE IF StartsWith(s, i, <<"f", "a", "l", "s", "e">>) THEN i + 5
        ELSE IF MatchNumber(s, i) # 0 THEN MatchNumber(s, i)
        ELSE IF StartsWith(s, i, <<"N", "a", "N">>) THEN i + 3
        ELSE IF StartsWith(s, i, <<"I", "n", "f", "i", "n", "i", "t", "y">>) THEN i + 8
        ELSE IF StartsWith(s, i, <<"-", "I", "n", "f", "i", "n", "i", "t", "y">>) THEN i + 9
        ELSE 0

\* JSONDecoder.decode: the index after the value and its trailing
\* whitespace, 0 when no value starts the text.
RawDecodeEnd(s) ==
    LET v == ScanOnce(s, SkipWs(s, 1))
    IN  IF v = 0 THEN 0 ELSE SkipWs(s, v)

\* Variant of JsonLoadsOk that takes only an object or an array as output.
JsonLoadsOkContainersOnly(s) ==
    /\ RawDecodeEnd(s) = Len(s) + 1
    /\ At(s, SkipWs(s, 1)) \in {"{", "["}

\* json.loads(s) returns (does not raise).
JsonLoadsOk(s) == RawDecodeEnd(s) = Len(s) + 1

\* str(je) of the JSONDecodeError json.loads(s) raises, up to its message
\* class (the line/column/char position is left out).
JsonErrorText(s) ==
    IF RawDecodeEnd(s) = 0
    THEN <<"Expecting value or malformed value">>
    ELSE <<"Extra data">>

(***************************************************************************)
(* repr() and str() of the values the repair prompt is built from          *)
(***************************************************************************)

\* The quote repr(s) encloses s in: double quotes only when s has a single
\* quote and no double quote.
ReprQuote(s) == IF Has(s, "'") /\ ~Has(s, "\"") THEN "\"" ELSE "'"

\* repr() of one character (or chunk) inside a string enclosed in q.
ReprChar(x, q) ==
    IF x = "\n" THEN <<"\\", "n">>
    ELSE IF x = "\t" THEN <<"\\", "t">>
    ELSE IF x = "\r" THEN <<"\\", "r">>
    ELSE IF x = "\f" THEN <<"\\", "x", "0", "c">>
    ELSE IF x = "\\" THEN <<"\\", "\\">>
    ELSE IF x = q THEN <<"\\", q>>
    ELSE <<x>>

\* The characters of s as repr() writes them inside quotes q.
ReprBody(s, q) == Flatten([i \in 1..Len(s) |-> ReprChar(s[i], q)])

\* repr(s) for a str s.
PyRepr(s) == <<ReprQuote(s)>> \o ReprBody(s, ReprQuote(s)) \o <<ReprQuote(s)>>

\* str(t) for a one-element tuple t = (s,).
StrOfTuple1(s) == <<"(">> \o PyRepr(s) \o <<",", ")">>

(***************************************************************************)
(* Code extraction: _clean_code (claude_call.py, openai_call.py) and       *)
(* _extract_code (new_gemini_llm.py).                                      *)
(*                                                                         *)
(* In a reply text a backtick is always an element of its own, and a run   *)
(* of word characters (\w+) is written as one or more word elements; the   *)
(* words python, from, import, def and class occur only as whole elements. *)
(***************************************************************************)

\* The backtick character (which a TLA+ string cannot hold).
Backtick == "<backtick>"
Fence == <<Backtick, Backtick, Backtick>>

\* Elements made of word characters only.
WordElements ==
    {"python", "Python", "PYTHON", "py", "json", "from", "import", "def",
     "class", "x", "y", "print", "result", "3"}

\* The first index >= i where a fence starts, 0 if there is none.
RECURSIVE NextFence(_, _)
NextFence(s, i) ==
    IF i + 2 > Len(s) THEN 0
    ELSE IF SubSeq(s, i, i + 2) = Fence THEN i
    ELSE NextFence(s, i + 1)

RECURSIVE SkipSpace(_, _)
SkipSpace(s, i) == IF At(s, i) \in Whitespace THEN SkipSpace(s, i + 1) ELSE i

RECURSIVE SkipWords(_, _)
SkipWords(s, i) == IF At(s, i) \in WordElements THEN SkipWords(s, i + 1) ELSE i

\* re.findall(r"```(?:python)?\s*([\s\S]*?)```", s[i-1:], re.I): the groups
\* of the successive leftmost matches.  A match starts at the next fence,
\* takes "python" (in any case, re.I) and whitespace when they follow it,
\* and ends at the first fence found after them.
RECURSIVE FindBlocks(_, _)
FindBlocks(s, i) ==
    LET o == NextFence(s, i)
        t == IF At(s, o + 3) \in {"python", "Python", "PYTHON"}
             THEN o + 4 ELSE o + 3
        c == SkipSpace(s, t)
        q == NextFence(s, c)
    IN  IF o = 0 THEN <<>>
        ELSE IF q = 0 THEN <<>>
        ELSE <<SubSeq(s, c, q - 1)>> \o FindBlocks(s, q + 3)

\* The first index >= i of a character str.splitlines() breaks lines at,
\* 0 if there is none.
RECURSIVE NextBreak(_, _)
NextBreak(s, i) ==
    IF i > Len(s) THEN 0
    ELSE IF s[i] \in {"\n", "\r", "\f"} THEN i
    ELSE NextBreak(s, i + 1)

\* s.splitlines(): "\r\n" is one break, and no empty line follows a final
\* break.
RECURSIVE SplitLines(_)
SplitLines(s) ==
    LET b == NextBreak(s, 1)
        w == IF At(s, b) = "\r" /\ At(s, b + 1) = "\n" THEN 2 ELSE 1
    IN  IF s = <<>> THEN <<>>
        ELSE IF b = 0 THEN <<s>>
        ELSE <<SubSeq(s, 1, b - 1)>> \o SplitLines(SubSeq(s, b + w, Len(s)))

\* "\n".join(lines)
RECURSIVE JoinLines(_)
JoinLines(lines) ==
    IF lines = <<>> THEN <<>>
    ELSE IF Len(lines) = 1 THEN lines[1]
    ELSE lines[1] \o <<"\n">> \o JoinLines(Tail(lines))

\* kw\s+\w+ matches at j.
KeywordThenName(ln, j, kw) ==
    /\ At(ln, j) = kw
    /\ At(ln, j + 1) \in Whitespace
    /\ At(ln, SkipSpace(ln, j + 1)) \in WordElements

\* Three times the quote character q at j.
TripleQuoteAt(ln, j, q) ==
    At(ln, j) = q /\ At(ln, j + 1) = q /\ At(ln, j + 2) = q

\* The line pattern of backend b matches ln.  pat of _clean_code
\* (claude_call.py:38, openai_call.py:33) is from\s+\w+, import\s+\w+,
\* def\s+\w+, class\s+\w+, a hash sign or three quotes, after the line's
\* leading whitespace; _CODE_LIKE_LINE (new_gemini_llm.py:73) in addition
\* wants an opening parenthesis right after the name of a def or class.
CodeLikeLine(b, ln) ==
    LET j == SkipSpace(ln, 1)
        paren == b = "gemini" =>
                    At(ln, SkipWords(ln, SkipSpace(ln, j + 1))) = "("
    IN  \/ KeywordThenName(ln, j, "from")
        \/ KeywordThenName(ln, j, "import")
        \/ KeywordThenName(ln, j, "def") /\ paren
        \/ KeywordThenName(ln, j, "class") /\ paren
        \/ At(ln, j) = "#"
        \/ TripleQuoteAt(ln, j, "\"")
        \/ TripleQuoteAt(ln, j, "'")

\* The body the three extractors share, on the stripped text t: the last
\* fenced block, else the lines from the first one the pattern of backend b
\* matches, else t.
ExtractFrom(t, b) ==
    LET blocks == FindBlocks(t, 1)
        lines  == SplitLines(t)
        Like   == {i \in 1..Len(lines) : CodeLikeLine(b, lines[i])}
        first  == CHOOSE i \in Like : \A k \in Like : i <= k
    IN  IF blocks # <<>> THEN Strip(blocks[Len(blocks)])
        ELSE IF Like # {}
        THEN Strip(JoinLines(SubSeq(lines, first, Len(lines))))
        ELSE t

\* _clean_code of claude_call_for_code (claude_call.py:30-42)
ClaudeCleanCode(text) == ExtractFrom(Strip(text), "claude")

\* _clean_code of openai_call_for_code_responses (openai_call.py:27-37)
OpenAICleanCode(text) == ExtractFrom(Strip(text), "openai")

\* _extract_code (new_gemini_llm.py:76-91); `text or ""` makes None empty.
GeminiExtractCode(text) ==
    ExtractFrom(Strip(IF text = None THEN <<>> ELSE text), "gemini")

(***************************************************************************)
(* _run_and_validate_json: the verdict on a finished child process         *)
(***************************************************************************)

NonZeroExitMessage == <<"Script exited with non-zero status.">>

\* Variant of NonZeroExitError without the fallback message.
NonZeroExitErrorBare(stderr) == stderr

\* `stderr or "Script exited with non-zero status."` (plan_execution.py:161)
NonZeroExitError(stderr) == IF stderr # <<>> THEN stderr ELSE NonZeroExitMessage

\* Variant of InvalidJsonError that leaves the two streams out.
InvalidJsonErrorBare(stdout, stderr) ==
    <<"Invalid JSON output: ">> \o JsonErrorText(stdout)

\* The f-string of plan_execution.py:168.
InvalidJsonError(stdout, stderr) ==
    <<"Invalid JSON output: ">> \o JsonErrorText(stdout)
        \o <<"\n", "STDOUT:", "\n">> \o stdout
        \o <<"\n", "STDERR:", "\n">> \o stderr

\* Variant of ValidateProc that does not look at the exit code.
ValidateProcIgnoringExit(p) ==
    LET stdout == Strip(p.stdout)
        stderr == Strip(p.stderr)
    IN  IF JsonLoadsOk(stdout)
        THEN [ok |-> TRUE, output |-> stdout, error |-> None]
        ELSE [ok |-> FALSE, output |-> stdout,
              error |-> InvalidJsonError(stdout, stderr)]

\* The value returned for a child that ended (plan_execution.py:156-168).
\* p is the CompletedProcess: returncode, stdout and stderr as decoded.
ValidateProc(p) ==
    LET stdout == Strip(p.stdout)
        stderr == Strip(p.stderr)
    IN  IF p.returncode # 0
        THEN [ok |-> FALSE, output |-> stdout, error |-> NonZeroExitError(stderr)]
        ELSE IF JsonLoadsOk(stdout)
        THEN [ok |-> TRUE, output |-> stdout, error |-> None]
        ELSE [ok |-> FALSE, output |-> stdout,
              error |-> InvalidJsonError(stdout, stderr)]

(***************************************************************************)
(* Prompts                                                                 *)
(***************************************************************************)

S3Marker == "s3://"

\* json.dumps(plan): the plan text between double quotes.
JsonDumpsPlan(p) == <<"\"">> \o p \o <<"\"">>

\* plan_execution.py:20 and :182
S3Present(p, q) ==
    Has(Lower(q), S3Marker) \/ Has(Lower(JsonDumpsPlan(p)), S3Marker)

\* PromptManager.execute_s3 / execute_entire_plan_v2: opaque prompt texts.
BaseSystemPrompt(p, q) ==
    IF S3Present(p, q) THEN <<"[execute_s3 system prompt]", " ">>
    ELSE <<"[execute_entire_plan_v2 system prompt]", " ">>

BaseUserPrompt(p, q) ==
    IF S3Present(p, q) THEN <<"[execute_s3 user prompt]">>
    ELSE <<"[execute_entire_plan_v2 user prompt]">>

\* plan_execution.py:29-31
InitialSystemPrompt(p, q) ==
    BaseSystemPrompt(p, q)
        \o <<"\n", "IMPORTANT: Final output must be valid JSON only. Always do: import json; print(json.dumps(result, ensure_ascii=False, indent=2)) at the end of the script. No other prints.">>

\* repair_system_prompt (plan_execution.py:190)
RepairSystemPrompt(p, q) ==
    Strip(BaseSystemPrompt(p, q))
        \o <<"\n", "\n", "IMPORTANT: Always print json.dumps(result).", "\n",
             "- Never create dummy data for any type of source , try sourcing again if not executed the first time">>

\* The one string inside the tuple repair_user_prompt (plan_execution.py:191-205).
RepairUserText(p, q, prev_code, err) ==
    BaseUserPrompt(p, q)
        \o <<"\n", "\n", "Your previous code failed.", "\n",
             "If you the answers are correct only the json formatting is incorrect then take those answers and format it as json as required in the questions",
             "----- PREVIOUS CODE -----", "\n">>
        \o Str(prev_code)
        \o <<"\n", "----- ERROR / OUTPUT -----", "\n">>
        \o Str(err)
        \o <<"\n", "----- PLAN -----", "\n">>
        \o Str(p)
        \o <<"\n", "Please fix the issues and return only working Python code. Ensure the script ends with:",
             "\n", "import json", "\n", "print(json.dumps(result))",
             "Ensure that you do not create a dummy data">>

\* _build_repair_prompt followed by the str() calls of plan_execution.py:85:
\* the system and user texts handed to the backends in a repair round.
\* repair_user_prompt is a one-element tuple (the trailing comma of :204).
BuildRepairPrompt(p, q, prev_code, err) ==
    [system |-> RepairSystemPrompt(p, q),
     user   |-> StrOfTuple1(RepairUserText(p, q, prev_code, err))]

(***************************************************************************)
(* Bounds and input samples                                                *)
(***************************************************************************)

\* Largest repair budget a caller passes (the default of 3 is one of them
\* once the bound is raised by one).
MaxBudget == 1

\* Largest timeout_for_execution a caller passes, in clock ticks.
MaxTimeout == 1

\* Longest stdout enumerated exhaustively for the validator.
MaxStdoutLen == 2

\* max_retries forced for S3 tasks (plan_execution.py:24).
S3Retries == 8

\* How far the wall clock is followed while a child runs.
MaxClock == MaxTimeout + 1

\* The (plan, questions) arguments: without the S3 marker, with it in the
\* questions (in upper case), with it in the plan.
PlainPlan == <<"[plan]">>
S3Plan == <<"[plan ", "s3://", "bucket]">>
PlainQuestions == <<"[questions]">>
S3Questions == <<"[questions ", "S3://", "bucket]">>
Tasks ==
    { [plan |-> PlainPlan, questions |-> PlainQuestions],
      [plan |-> PlainPlan, questions |-> S3Questions],
      [plan |-> S3Plan, questions |-> PlainQuestions] }

\* Code texts a backend returns after its extractor pass.
Code1 == <<"import json", "\n", "print(json.dumps(result))">>
Code2 == <<"print(result)">>
CodeTexts == {Code1, Code2}

\* What a child writes to stdout.
StdoutFour == <<"4", "\n">>
StdoutAnswer ==
    <<"{", "\"", "a", "n", "s", "w", "e", "r", "\"", ":", " ", "4", "}", "\n">>
StdoutNotJson == <<"a", "n", "s", "w", "e", "r", " ", "4", "\n">>
StdoutSamples == {StdoutFour, StdoutAnswer, StdoutNotJson}

\* What a child writes to stderr.
StderrTraceback == <<"Traceback", "\n", "ValueError", "\n">>
StderrSamples == {<<>>, StderrTraceback}

\* Stdout texts of the validator's examples.
StdoutExtraText ==
    <<"4", "2", "\n", "e", "x", "t", "r", "a", " ", "t", "e", "x", "t">>
StdoutObject == <<"{", "\"", "a", "\"", ":", " ", "1", "}">>

\* Every text of at most n characters of A.
TextsUpTo(A, n) == UNION {[1..k -> A] : k \in 0..n}

ValidatorAlphabet ==
    {"4", "{", "}", "[", "]", "\"", "a", ":", ",", " ", "\n", "\f"}

ValidatorStdouts ==
    TextsUpTo(ValidatorAlphabet, MaxStdoutLen)
        \cup StdoutSamples \cup {StdoutExtraText, StdoutObject}

ExitCodes == {0, 1}

\* The CompletedProcess values subprocess.run can return.
Completed(stdouts) ==
    [returncode : ExitCodes, stdout : stdouts, stderr : StderrSamples]

NoProc == [returncode |-> -1, stdout |-> <<>>, stderr |-> <<>>]

\* What a call of a backend adapter gives: it raises, or returns a text.
\* claude_call_for_code and openai_call_for_code_responses return
\* _clean_code(raw_text), which is "" for a reply whose last fenced block
\* is empty; gemini_call_for_code raises on empty code.
Raised == [raised |-> TRUE, code |-> None]
Returned(c) == [raised |-> FALSE, code |-> c]
ClaudeOutcomes == {Raised} \cup {Returned(c) : c \in CodeTexts \cup {<<>>}}
OpenAIOutcomes == {Raised} \cup {Returned(c) : c \in CodeTexts \cup {<<>>}}
GeminiOutcomes == {Raised} \cup {Returned(c) : c \in CodeTexts}

\* {"error": "All LLMs failed to generate code"} (plan_execution.py:57)
AllFailedDict == <<"{", "error", ":", "All LLMs failed to generate code", "}">>

(***************************************************************************)
(* State of one call of execute_plan_v1                                    *)
(***************************************************************************)
VARIABLES
    pc,                     \* where the call is: "start", "claude", "openai",
                            \* "gemini", "running" (blocked in subprocess.run),
                            \* "done"; "rv", "rv_running", "rv_done" for a
                            \* direct call of _run_and_validate_json
    plan, questions,        \* arguments
    timeout_for_execution,  \* argument
    max_retries,            \* argument, rebound at plan_execution.py:24
    arg_max_retries,        \* the value the caller passed for max_retries
    system_prompt,          \* prompts handed to the backends in the current
    user_prompt,            \*   generation step
    attempt,                \* index of the retry loop, -1 before the loop
    code,                   \* the local `code`
    ok, output, error,      \* result of the latest _run_and_validate_json
    chain,                  \* backend calls made so far in the generation
                            \*   step in progress, in order, each with its
                            \*   outcome; empty between steps
    proc,                   \* CompletedProcess of the latest execution,
                            \*   NoProc until subprocess.run has returned
    hangs,                  \* the running child never terminates
    elapsed,                \* clock ticks since the running child was
                            \*   started, 0 when no child runs
    executed,               \* code text of the latest execution
    executions,             \* number of executions started
    result,                 \* value returned, or exception raised
    returned                \* how the call ended: "none", "dict" (:57),
                            \*   "output" (:76, :119), "error" (:121), "raised";
                            \*   "tuple" for _run_and_validate_json

VARIABLES
    ext,                    \* a reply text and what each extractor makes of it
    adp,                    \* a call of the Claude or OpenAI adapter
    gem,                    \* the calls of gemini_call_for_code in progress,
                            \*   one record of locals per caller
    cache_file,             \* cache/code_cache.json on disk
    lock,                   \* holder of _lock (new_gemini_llm.py:36), 0 if free
    tmp_files               \* temporary script files on disk

\* The variables of execute_plan_v1 and _run_and_validate_json.
runvars == <<pc, plan, questions, timeout_for_execution, max_retries,
             arg_max_retries, system_prompt, user_prompt, attempt, code, ok,
             output, error, chain, proc, hangs, elapsed, executed, executions,
             result, returned>>

\* The variables of the adapters and of the files they keep.
adaptervars == <<ext, adp, gem, cache_file, lock>>

vars == <<runvars, adaptervars, tmp_files>>

\* A part of the program that is not running.
Off == [pc |-> "off"]

\* No cache file on disk yet.
NoCacheFile == [state |-> "absent", data |-> <<>>]

AdaptersIdle ==
    /\ ext = Off
    /\ adp = Off
    /\ gem = <<>>
    /\ cache_file = NoCacheFile
    /\ lock = 0

args == <<plan, questions, timeout_for_execution, arg_max_retries>>

\* State before the body runs, for given arguments.
Fresh ==
    /\ system_prompt = <<>>
    /\ user_prompt = <<>>
    /\ attempt = -1
    /\ code = None
    /\ ok = FALSE
    /\ output = None
    /\ error = None
    /\ chain = <<>>
    /\ proc = NoProc
    /\ hangs = FALSE
    /\ elapsed = 0
    /\ executed = None
    /\ executions = 0
    /\ result = None
    /\ returned = "none"

Init ==
    /\ pc = "start"
    /\ \E t \in Tasks : plan = t.plan /\ questions = t.questions
    /\ timeout_for_execution \in 1..MaxTimeout
    /\ max_retries \in 0..MaxBudget
    /\ arg_max_retries = max_retries
    /\ Fresh
    /\ AdaptersIdle
    /\ tmp_files = 0

\* Repair rounds begun so far.
Rounds == attempt + 1

\* Variant of Range that runs one index too far.
RangeInclusive(n) == 0..n

\* range(n)
Range(n) == 0..(n - 1)

\* Variant of EffectiveRetries that never leaves the loop without a round.
EffectiveRetriesAtLeastOne(p, q, n) ==
    IF S3Present(p, q) THEN S3Retries ELSE IF n = 0 THEN 1 ELSE n

\* The budget the retry loop runs with (plan_execution.py:20-27).
EffectiveRetries(p, q, n) == IF S3Present(p, q) THEN S3Retries ELSE n

\* plan_execution.py:14-34: choose the prompts and the budget.
Begin ==
    /\ pc = "start"
    /\ UNCHANGED <<adaptervars, tmp_files>>
    /\ max_retries' = EffectiveRetries(plan, questions, max_retries)
    /\ system_prompt' = InitialSystemPrompt(plan, questions)
    /\ user_prompt' = BaseUserPrompt(plan, questions)
    /\ pc' = "claude"
    /\ UNCHANGED <<args, attempt, code, ok, output, error, chain, proc, hangs,
                   elapsed, executed, executions, result, returned>>

\* plan_execution.py:59-68 / :106-112 up to the start of the child in
\* _run_and_validate_json (:135-154): c is written out and run.  The copies
\* under generated_code/ and temp.py are write-only and not modelled.
\* subprocess.run is called without timeout=, so it returns only when the
\* child ends.
StartExecution(c) ==
    /\ pc' = "running"
    /\ hangs' \in BOOLEAN
    /\ elapsed' = 0
    /\ executed' = c
    /\ executions' = executions + 1
    /\ chain' = <<>>
    /\ proc' = NoProc
    /\ UNCHANGED <<attempt, system_prompt, user_prompt, ok, output, error,
                   result, returned>>

\* The head of the retry loop (plan_execution.py:79-81) reached with the
\* locals code = c and error = e, and the `return error` after it (:121).
LoopNext(c, e) ==
    IF attempt + 1 \in Range(max_retries)
    THEN /\ attempt' = attempt + 1
         /\ system_prompt' = BuildRepairPrompt(plan, questions, c, e).system
         /\ user_prompt' = BuildRepairPrompt(plan, questions, c, e).user
         /\ pc' = "claude"
         /\ UNCHANGED <<result, returned>>
    ELSE /\ pc' = "done"
         /\ result' = e
         /\ returned' = "error"
         /\ UNCHANGED <<attempt, system_prompt, user_prompt>>

\* The entry of chain for one backend call.
Call(b, r) ==
    [backend |-> b,
     outcome |-> IF r.raised THEN "raised"
                 ELSE IF Truthy(r.code) THEN "code" ELSE "empty"]

\* Variant of AfterCall that falls back to Gemini at once.
AfterCallStraightToGemini(c, next) == IF Truthy(c) THEN "execute" ELSE "gemini"

\* Where the step goes after Claude or OpenAI gave c (`if not code`).
AfterCall(c, next) == IF Truthy(c) THEN "execute" ELSE next

\* plan_execution.py:35-39 / :84-88
ClaudeCall ==
    /\ pc = "claude"
    /\ UNCHANGED <<adaptervars, tmp_files>>
    /\ \E r \in ClaudeOutcomes :
        /\ code' = r.code
        /\ IF AfterCall(r.code, "openai") = "execute"
           THEN StartExecution(r.code)
           ELSE /\ pc' = AfterCall(r.code, "openai")
                /\ chain' = Append(chain, Call("claude", r))
                /\ UNCHANGED <<attempt, system_prompt, user_prompt, ok, output,
                               error, proc, hangs, elapsed, executed,
                               executions, result, returned>>
    /\ UNCHANGED <<args, max_retries>>

\* plan_execution.py:42-48 / :91-96
OpenAICall ==
    /\ pc = "openai"
    /\ UNCHANGED <<adaptervars, tmp_files>>
    /\ \E r \in OpenAIOutcomes :
        /\ code' = r.code
        /\ IF AfterCall(r.code, "gemini") = "execute"
           THEN StartExecution(r.code)
           ELSE /\ pc' = AfterCall(r.code, "gemini")
                /\ chain' = Append(chain, Call("openai", r))
                /\ UNCHANGED <<attempt, system_prompt, user_prompt, ok, output,
                               error, proc, hangs, elapsed, executed,
                               executions, result, returned>>
    /\ UNCHANGED <<args, max_retries>>

\* plan_execution.py:51-57 / :99-104.  When Gemini raises, the initial step
\* returns the dict; a repair round does `continue`, leaving `code` as the
\* failed Claude/OpenAI calls left it.
GeminiCall ==
    /\ pc = "gemini"
    /\ UNCHANGED <<adaptervars, tmp_files>>
    /\ \E r \in GeminiOutcomes :
        /\ IF ~r.raised
           THEN /\ code' = r.code
                /\ StartExecution(r.code)
           ELSE /\ code' = code
                /\ chain' = <<>>
                /\ UNCHANGED <<ok, output, error, proc, hangs, elapsed,
                               executed, executions>>
                /\ IF attempt = -1
                   THEN /\ pc' = "done"
                        /\ result' = AllFailedDict
                        /\ returned' = "dict"
                        /\ UNCHANGED <<attempt, system_prompt, user_prompt>>
                   ELSE LoopNext(code, error)
    /\ UNCHANGED <<args, max_retries>>

\* The wall clock advances while the call is blocked in subprocess.run.
Tick ==
    /\ pc = "running"
    /\ UNCHANGED <<adaptervars, tmp_files>>
    /\ elapsed < MaxClock
    /\ elapsed' = elapsed + 1
    /\ UNCHANGED <<pc, args, max_retries, system_prompt, user_prompt, attempt,
                   code, ok, output, error, chain, proc, hangs, executed,
                   executions, result, returned>>

\* Variant of ChildExit that goes on with the retry loop after a valid
\* attempt as well.
ChildExitKeepsRepairing ==
    /\ pc = "running"
    /\ UNCHANGED <<adaptervars, tmp_files>>
    /\ ~hangs
    /\ \E p \in Completed(StdoutSamples) :
        /\ proc' = p
        /\ ok' = ValidateProc(p).ok
        /\ output' = ValidateProc(p).output
        /\ error' = ValidateProc(p).error
        /\ LoopNext(code, ValidateProc(p).error)
    /\ elapsed' = 0
    /\ UNCHANGED <<args, max_retries, code, chain, hangs, executed,
                   executions>>

\* The child ends and its output decodes: subprocess.run returns p, the
\* verdict is computed (:156-168), and execute_plan_v1 returns the output
\* (:75-76, :118-119) or goes on with the retry loop.
ChildExit ==
    /\ pc = "running"
    /\ UNCHANGED <<adaptervars, tmp_files>>
    /\ ~hangs
    /\ \E p \in Completed(StdoutSamples) :
        /\ proc' = p
        /\ ok' = ValidateProc(p).ok
        /\ output' = ValidateProc(p).output
        /\ error' = ValidateProc(p).error
        /\ IF ValidateProc(p).ok
           THEN /\ pc' = "done"
                /\ result' = ValidateProc(p).output
                /\ returned' = "output"
                /\ UNCHANGED <<attempt, system_prompt, user_prompt>>
           ELSE LoopNext(code, ValidateProc(p).error)
    /\ elapsed' = 0
    /\ UNCHANGED <<args, max_retries, code, chain, hangs, executed,
                   executions>>

\* The child ends having written bytes that do not decode: subprocess.run
\* (text=True, strict errors) raises UnicodeDecodeError, which no handler
\* of _run_and_validate_json or execute_plan_v1 catches.
ChildExitUndecodable ==
    /\ pc = "running"
    /\ UNCHANGED <<adaptervars, tmp_files>>
    /\ ~hangs
    /\ pc' = "done"
    /\ result' = <<"UnicodeDecodeError">>
    /\ returned' = "raised"
    /\ elapsed' = 0
    /\ UNCHANGED <<args, max_retries, system_prompt, user_prompt, attempt,
                   code, ok, output, error, chain, proc, hangs, executed,
                   executions>>

Next ==
    \/ Begin
    \/ ClaudeCall
    \/ OpenAICall
    \/ GeminiCall
    \/ Tick
    \/ ChildExit
    \/ ChildExitUndecodable

Spec == Init /\ [][Next]_vars

(***************************************************************************)
(* A direct call of _run_and_validate_json(code, timeout_sec)              *)
(***************************************************************************)

\* A character that has no UTF-8 encoding (a lone surrogate).
LoneSurrogate == "<U+D800>"

\* code.encode("utf-8") succeeds.
Utf8Encodable(c) == ~Has(c, LoneSurrogate)

InitValidate ==
    /\ pc = "rv"
    /\ plan = PlainPlan
    /\ questions = PlainQuestions
    /\ timeout_for_execution \in 1..MaxTimeout
    /\ max_retries = 0
    /\ arg_max_retries = 0
    /\ system_prompt = <<>>
    /\ user_prompt = <<>>
    /\ attempt = -1
    /\ code \in CodeTexts
                \cup {<<"print(", "\"", LoneSurrogate, "\"", ")">>}
    /\ ok = FALSE
    /\ output = None
    /\ error = None
    /\ chain = <<>>
    /\ proc = NoProc
    /\ hangs = FALSE
    /\ elapsed = 0
    /\ executed = None
    /\ executions = 0
    /\ result = None
    /\ returned = "none"
    /\ AdaptersIdle
    /\ tmp_files = 0

\* plan_execution.py:135-137: the script file is created, but writing the
\* code into it raises; these lines stand before the try statement, so the
\* exception leaves the call without passing its finally clause.
RvWriteFails ==
    /\ pc = "rv"
    /\ ~Utf8Encodable(code)
    /\ tmp_files' = tmp_files + 1
    /\ pc' = "rv_done"
    /\ result' = <<"UnicodeEncodeError">>
    /\ returned' = "raised"
    /\ UNCHANGED adaptervars
    /\ UNCHANGED <<args, max_retries, system_prompt, user_prompt, attempt,
                   code, ok, output, error, chain, proc, hangs, elapsed,
                   executed, executions>>

\* plan_execution.py:135-154: the script is written and the child started.
RvStart ==
    /\ pc = "rv"
    /\ Utf8Encodable(code)
    /\ UNCHANGED adaptervars
    /\ tmp_files' = tmp_files + 1
    /\ pc' = "rv_running"
    /\ hangs' \in BOOLEAN
    /\ executed' = code
    /\ executions' = executions + 1
    /\ UNCHANGED <<args, max_retries, system_prompt, user_prompt, attempt,
                   code, ok, output, error, chain, proc, elapsed, result,
                   returned>>

\* plan_execution.py:156-176: the child ended, the verdict is returned and
\* the finally clause removes the script file.
RvExit ==
    /\ pc = "rv_running"
    /\ UNCHANGED adaptervars
    /\ tmp_files' = tmp_files - 1
    /\ ~hangs
    /\ \E p \in Completed(ValidatorStdouts)
                \cup [returncode : ExitCodes, stdout : {StdoutNotJson},
                      stderr : {<<" ", "\n">>}] :
        /\ proc' = p
        /\ ok' = ValidateProc(p).ok
        /\ output' = ValidateProc(p).output
        /\ error' = ValidateProc(p).error
    /\ pc' = "rv_done"
    /\ returned' = "tuple"
    /\ UNCHANGED <<args, max_retries, system_prompt, user_prompt, attempt,
                   code, chain, hangs, elapsed, executed, executions, result>>

\* The child's output does not decode: UnicodeDecodeError leaves the call
\* through the finally clause.
RvExitUndecodable ==
    /\ pc = "rv_running"
    /\ UNCHANGED adaptervars
    /\ tmp_files' = tmp_files - 1
    /\ ~hangs
    /\ pc' = "rv_done"
    /\ result' = <<"UnicodeDecodeError">>
    /\ returned' = "raised"
    /\ UNCHANGED <<args, max_retries, system_prompt, user_prompt, attempt,
                   code, ok, output, error, chain, proc, hangs, elapsed,
                   executed, executions>>

NextValidate ==
    \/ RvWriteFails
    \/ RvStart
    \/ RvExit
    \/ RvExitUndecodable

SpecValidate == InitValidate /\ [][NextValidate]_vars

(***************************************************************************)
(* The three extractors applied to one reply text                          *)
(***************************************************************************)

\* Longest reply text without a closed fence that is enumerated.
MaxPieces == 3

\* execute_plan_v1 and _run_and_validate_json are not running.
RunIdle ==
    /\ pc = "off"
    /\ plan = PlainPlan
    /\ questions = PlainQuestions
    /\ timeout_for_execution = 1
    /\ max_retries = 0
    /\ arg_max_retries = 0
    /\ Fresh

\* Replies that end in a closed fenced block, with the tag that directly
\* follows its opening fence (nothing or a language tag) and its contents.
\* Before the block comes nothing, prose or an earlier block; after it
\* nothing or prose.
FencedReplies ==
    LET before == {<<>>,
                   <<"x", "\n">>,
                   <<"x", " ">> \o Fence \o <<"y">> \o Fence \o <<"\n">>,
                   Fence \o <<"python", "\n", "import", " ", "x", "\n">>
                         \o Fence \o <<"\n">>}
        tags   == {<<>>, <<"python">>, <<"PYTHON">>, <<"py">>,
                   <<"python", "3">>}
        bodies == {<<>>,
                   <<"print", "(", "x", ")">>,
                   <<"import", " ", "json", "\n", "print", "(", "x", ")", "\n">>,
                   <<" ", "x", " ", "\n">>}
        after  == {<<>>, <<"\n", "x">>}
    IN  {[raw  |-> a \o Fence \o g \o <<"\n">> \o b \o Fence \o z,
          tag  |-> g,
          body |-> b] : a \in before, g \in tags, b \in bodies, z \in after}

\* Elements of the replies without a closed fence.
PlainAlphabet ==
    {"import", "class", "def", "x", "(", ":", " ", "\n", "#", Backtick}

\* Reply texts that hold no closed fence.
PlainReplies ==
    TextsUpTo(PlainAlphabet, MaxPieces)
        \cup {<<"x", "\n", "class", " ", "x", ":", "\n", " ", "y">>,
              <<"x", "\r", "\n", "def", " ", "x", "(", ")", ":", "\f", "y">>,
              <<"x", "\n", "\"", "\"", "\"", "y", "\n">>,
              <<" ", "from", " ", "x", " ", "import", " ", "y", "\n">>}

\* A reply text is given.
InitExtract ==
    /\ RunIdle
    /\ tmp_files = 0
    /\ adp = Off
    /\ gem = <<>>
    /\ cache_file = NoCacheFile
    /\ lock = 0
    /\ \/ \E f \in FencedReplies :
            ext = [pc |-> "claude", raw |-> f.raw,
                   kind |-> "fenced", tag |-> f.tag, body |-> f.body,
                   claude |-> None, openai |-> None, gemini |-> None]
       \/ \E t \in PlainReplies :
            ext = [pc |-> "claude", raw |-> t,
                   kind |-> "plain", tag |-> <<>>, body |-> <<>>,
                   claude |-> None, openai |-> None, gemini |-> None]

\* claude_call.py:74: _clean_code(raw_text)
ExtractClaude ==
    /\ ext.pc = "claude"
    /\ ext' = [ext EXCEPT !.claude = ClaudeCleanCode(ext.raw), !.pc = "openai"]
    /\ UNCHANGED <<runvars, adp, gem, cache_file, lock, tmp_files>>

\* openai_call.py:69: _clean_code(raw_text)
ExtractOpenAI ==
    /\ ext.pc = "openai"
    /\ ext' = [ext EXCEPT !.openai = OpenAICleanCode(ext.raw), !.pc = "gemini"]
    /\ UNCHANGED <<runvars, adp, gem, cache_file, lock, tmp_files>>

\* new_gemini_llm.py:180: _extract_code(text)
ExtractGemini ==
    /\ ext.pc = "gemini"
    /\ ext' = [ext EXCEPT !.gemini = GeminiExtractCode(ext.raw), !.pc = "done"]
    /\ UNCHANGED <<runvars, adp, gem, cache_file, lock, tmp_files>>

NextExtract ==
    \/ ExtractClaude
    \/ ExtractOpenAI
    \/ ExtractGemini

SpecExtract == InitExtract /\ [][NextExtract]_vars

(***************************************************************************)
(* One call of claude_call_for_code or openai_call_for_code_responses      *)
(***************************************************************************)

\* Defaults of the parameters (execute_plan_v1 passes only the prompts).
ClaudeMaxRetries == 3
ClaudeRetryDelay == 2
OpenAIMaxRetries == 5
OpenAIRetryDelay == 1

\* models_cycle of openai_call_for_code_responses
ModelsCycle == <<"gpt-5", "gpt-4.1">>

\* What the API call of one attempt gives: an exception, or a reply text.
ApiOutcomes ==
    {[raised |-> TRUE, text |-> None]}
        \cup {[raised |-> FALSE, text |-> t] :
                t \in {f.raw : f \in FencedReplies} \cup PlainReplies}

\* The adapter is entered.
InitAdapter ==
    /\ RunIdle
    /\ tmp_files = 0
    /\ ext = Off
    /\ gem = <<>>
    /\ cache_file = NoCacheFile
    /\ lock = 0
    /\ \E b \in {"claude", "openai"} :
        adp = [pc |-> "call", backend |-> b,
               max_retries |-> IF b = "claude" THEN ClaudeMaxRetries
                               ELSE OpenAIMaxRetries,
               retry_delay |-> IF b = "claude" THEN ClaudeRetryDelay
                               ELSE OpenAIRetryDelay,
               attempt |-> 0, calls |-> 0, model |-> None, slept |-> <<>>,
               raw_text |-> None, returned |-> "none", result |-> None]

\* Variant of AttemptFailed that does not count the failed attempt.
AttemptFailedUncounted(m) ==
    adp' = [adp EXCEPT !.calls = @ + 1, !.model = m,
                       !.slept = Append(@, adp.retry_delay)]

\* The except branch (claude_call.py:76-83, openai_call.py:72-78) after a
\* call on model m.
AttemptFailed(m) ==
    adp' = [adp EXCEPT
        !.attempt = @ + 1,
        !.calls = @ + 1,
        !.model = m,
        !.slept = IF adp.attempt + 1 < adp.max_retries
                  THEN Append(@, adp.retry_delay) ELSE @,
        !.pc = IF adp.attempt + 1 < adp.max_retries THEN "call" ELSE "done",
        !.returned = IF adp.attempt + 1 < adp.max_retries THEN "none"
                     ELSE "raised",
        !.result = IF adp.attempt + 1 < adp.max_retries THEN None
                   ELSE <<"RuntimeError">>]

\* `return _clean_code(raw_text)` after a call on model m.
AttemptReturned(m, raw, c) ==
    adp' = [adp EXCEPT !.calls = @ + 1, !.model = m, !.raw_text = raw,
                       !.pc = "done", !.returned = "code", !.result = c]

\* One turn of the loop of claude_call_for_code (claude_call.py:45-83): an
\* empty reply, or one that is empty once stripped, raises ValueError.
ClaudeAttempt ==
    /\ adp.pc = "call"
    /\ adp.backend = "claude"
    /\ adp.attempt < adp.max_retries
    /\ \E o \in ApiOutcomes :
        IF o.raised \/ ~Truthy(o.text) \/ ~Truthy(Strip(o.text))
        THEN AttemptFailed("claude")
        ELSE AttemptReturned("claude", Strip(o.text),
                             ClaudeCleanCode(Strip(o.text)))
    /\ UNCHANGED <<runvars, ext, gem, cache_file, lock, tmp_files>>

\* One turn of the loop of openai_call_for_code_responses
\* (openai_call.py:40-78): only an empty output_text raises ValueError.
OpenAIAttempt ==
    /\ adp.pc = "call"
    /\ adp.backend = "openai"
    /\ adp.attempt < adp.max_retries
    /\ LET m == ModelsCycle[(adp.attempt % Len(ModelsCycle)) + 1]
       IN  \E o \in ApiOutcomes :
            IF o.raised \/ ~Truthy(o.text)
            THEN AttemptFailed(m)
            ELSE AttemptReturned(m, Strip(o.text),
                                 OpenAICleanCode(Strip(o.text)))
    /\ UNCHANGED <<runvars, ext, gem, cache_file, lock, tmp_files>>

NextAdapter ==
    \/ ClaudeAttempt
    \/ OpenAIAttempt

SpecAdapter == InitAdapter /\ [][NextAdapter]_vars

(***************************************************************************)
(* gemini_call_for_code and its cache file                                 *)
(***************************************************************************)

\* Defaults of the parameters (new_gemini_llm.py:117-120).
TotalAttempts == 6
PerModelAttempts == 3
InitialBackoff == 1
MaxBackoff == 8

\* Calls one caller makes one after the other.
MaxGeminiCalls == 2

\* MODEL_CHAIN
ModelChain == <<"gemini-2.5-pro", "gemini-2.5-flash">>

\* A status code that is absent (None).
NoStatus == -1

\* s.encode("utf-8", "ignore"): characters without an encoding are dropped.
EncodeIgnore(s) == SelectSeq(s, LAMBDA x : x # LoneSurrogate)

\* _prompt_key: the digest of system + "\n---\n" + user, both encoded with
\* errors ignored; the digest is taken to be injective on the bytes hashed.
PromptKey(sp, up) == EncodeIgnore(sp) \o <<"\n---\n">> \o EncodeIgnore(up)

\* Variant of CacheGet that finds no entry.
CacheGetMisses(d, k) == None

\* cache.get(key)
CacheGet(d, k) == IF k \in DOMAIN d THEN d[k] ELSE None

\* Variant of CachePut that stores nothing.
CachePutNothing(d, k, v) == d

\* cache[key] = v
CachePut(d, k, v) ==
    [x \in (DOMAIN d) \cup {k} |-> IF x = k THEN v ELSE d[x]]

\* Replies of the Gemini models.
GeminiReplies ==
    {Fence \o <<"python", "\n", "print", "(", "x", ")", "\n">> \o Fence,
     <<"import", " ", "json", "\n", "print", "(", "y", ")">>,
     Fence \o <<"python", "\n">> \o Fence}

\* Exceptions of generate_content, as the handler reads them
\* (new_gemini_llm.py:201-209): the status code, NoStatus when the exception
\* carries none, and the message.
GeminiErrors ==
    {[status |-> 429, msg |-> <<"quota">>],
     [status |-> 400, msg |-> <<"bad", " ", "request">>],
     [status |-> 400, msg |-> <<"Internal", " ", "error">>],
     [status |-> NoStatus, msg |-> <<"connection", " ", "reset">>]}

\* message.lower(), for the words the messages above are made of
MessageLower(msg) ==
    [i \in 1..Len(msg) |->
        IF msg[i] = "Internal" THEN "internal"
        ELSE IF msg[i] = "Empty" THEN "empty"
        ELSE msg[i]]

\* _should_retry(status_code, message)
ShouldRetry(status_code, message) ==
    \/ status_code \in {429, 500, 502, 503, 504}
    \/ status_code \in {0, NoStatus}
    \/ Has(MessageLower(message), "internal")
    \/ Has(MessageLower(message), "timeout")

Min(a, b) == IF a < b THEN a ELSE b

\* The locals of a caller that is between calls: it makes up to `allowed`
\* calls, with prefer_cached drawn from prefs and with total_attempts and
\* per_model_attempts as in budget (the defaults, unless the specification
\* says otherwise); done counts its calls and before keeps what the cache
\* file held when the callers started.
GeminiIdle(allowed, prefs) ==
    [pc |-> "idle", allowed |-> allowed, prefs |-> prefs, done |-> 0,
     budget |-> [total_attempts |-> TotalAttempts,
                 per_model_attempts |-> PerModelAttempts],
     before |-> <<>>,
     key |-> None, prefer_cached |-> TRUE, step |-> "none",
     attempts_left |-> 0, model |-> 0, model_attempts |-> 0, i |-> 0,
     backoff |-> 0, slept |-> <<>>, calls |-> 0, used |-> <<>>,
     cache |-> <<>>, code_out |-> None, last_err |-> None,
     returned |-> "none", result |-> None, source |-> "none",
     prev |-> [key |-> None, prefer_cached |-> TRUE, returned |-> "none",
               result |-> None]]

\* The caller p goes on with the locals r.
Goes(p, r) == gem' = [gem EXCEPT ![p] = r]

\* `return c`; source tells where c came from.
GeminiReturn(g, c, source) ==
    [g EXCEPT !.pc = "done", !.step = "none", !.done = @ + 1,
              !.last_err = None,
              !.returned = "code", !.result = c, !.source = source]

\* `raise RuntimeError(...)` (:234)
GeminiRaise(g) ==
    [g EXCEPT !.pc = "done", !.step = "none", !.done = @ + 1,
              !.last_err = None,
              !.returned = "raised", !.result = <<"RuntimeError">>,
              !.source = "none"]

\* A caller enters gemini_call_for_code (:113-142) with one of two user
\* prompts.
GeminiEnter(p) ==
    /\ gem[p].pc \in {"idle", "done"}
    /\ gem[p].done < gem[p].allowed
    /\ \E up \in {<<"[user 1]">>, <<"[user 2]">>}, prefer \in gem[p].prefs :
        Goes(p, [gem[p] EXCEPT
            !.key = PromptKey(<<"[system]">>, up),
            !.prefer_cached = prefer,
            !.pc = IF prefer THEN "lookup" ELSE "attempt",
            !.step = IF prefer THEN "ensure" ELSE "none",
            !.attempts_left = gem[p].budget.total_attempts,
            !.model = 1,
            !.model_attempts = Min(gem[p].budget.per_model_attempts,
                                   gem[p].budget.total_attempts),
            !.i = 1,
            !.backoff = InitialBackoff,
            !.slept = <<>>, !.calls = 0, !.used = <<>>,
            !.cache = <<>>, !.code_out = None, !.last_err = None,
            !.returned = "none", !.result = None, !.source = "none",
            !.prev = [key |-> gem[p].key,
                      prefer_cached |-> gem[p].prefer_cached,
                      returned |-> gem[p].returned,
                      result |-> gem[p].result]])
    /\ UNCHANGED <<runvars, ext, adp, cache_file, lock, tmp_files>>

\* _load_cache is entered at the start of the call (:137), before the
\* entry is stored (:186) or as the last resort (:230).
InLoadCache(p) == gem[p].pc \in {"lookup", "persist", "last"}

\* _ensure_cache (:39-41): does the cache file exist?
EnsureCache(p) ==
    /\ InLoadCache(p)
    /\ gem[p].step = "ensure"
    /\ Goes(p, [gem[p] EXCEPT
            !.step = IF cache_file.state = "absent" THEN "create" ELSE "read"])
    /\ UNCHANGED <<runvars, ext, adp, cache_file, lock, tmp_files>>

\* _ensure_cache (:42-43): the file did not exist, so it is opened for
\* writing and {} is dumped into it.
CreateCache(p) ==
    /\ InLoadCache(p)
    /\ gem[p].step = "create"
    /\ cache_file' = [state |-> "json", data |-> <<>>]
    /\ Goes(p, [gem[p] EXCEPT !.step = "read"])
    /\ UNCHANGED <<runvars, ext, adp, lock, tmp_files>>

\* What json.load gives for the file as it is now; a file that is being
\* rewritten does not parse, and _load_cache answers {} (:51-52).
FileContents == IF cache_file.state = "json" THEN cache_file.data ELSE <<>>

\* Variant of NextModel that goes on with the same model.
NextModelStays(g) ==
    LET left == g.attempts_left - g.model_attempts
    IN  IF left <= 0
        THEN [g EXCEPT !.attempts_left = left, !.pc = "last",
                       !.step = "ensure"]
        ELSE [g EXCEPT !.attempts_left = left,
                       !.model_attempts = Min(g.budget.per_model_attempts,
                                              left),
                       !.i = 1,
                       !.backoff = InitialBackoff]

\* Where the model loop goes after the current model is given up (:225-227
\* and the end of `for model in MODEL_CHAIN`).
NextModel(g) ==
    LET left == g.attempts_left - g.model_attempts
    IN  IF left <= 0 \/ g.model = Len(ModelChain)
        THEN [g EXCEPT !.attempts_left = left, !.pc = "last",
                       !.step = "ensure"]
        ELSE [g EXCEPT !.attempts_left = left,
                       !.model = @ + 1,
                       !.model_attempts = Min(g.budget.per_model_attempts,
                                              left),
                       !.i = 1,
                       !.backoff = InitialBackoff]

\* Variant of GeminiFailed that does not double the backoff.
GeminiFailedFixedDelay(g, e) ==
    IF g.i < g.model_attempts /\ ShouldRetry(e.status, e.msg)
    THEN [g EXCEPT !.last_err = e,
                   !.slept = Append(@, Min(g.backoff, MaxBackoff)),
                   !.i = @ + 1]
    ELSE NextModel([g EXCEPT !.last_err = e])

\* The except branch (:199-223) for the error e, which last_err keeps
\* (:211) until the call ends.
GeminiFailed(g, e) ==
    IF g.i < g.model_attempts /\ ShouldRetry(e.status, e.msg)
    THEN [g EXCEPT !.last_err = e,
                   !.slept = Append(@, Min(g.backoff, MaxBackoff)),
                   !.backoff = @ * 2,
                   !.i = @ + 1]
    ELSE NextModel([g EXCEPT !.last_err = e])

\* _load_cache returns (:48-52) and the caller goes on: with the lookup
\* (:138-142), with the new entry (:187), or with the last resort (:231-234).
ReadCache(p) ==
    /\ InLoadCache(p)
    /\ gem[p].step = "read"
    /\ LET g == gem[p]
           d == FileContents
       IN  Goes(p,
            IF g.pc = "lookup"
            THEN IF Truthy(CacheGet(d, g.key))
                 THEN GeminiReturn(g, CacheGet(d, g.key), "cache")
                 ELSE [g EXCEPT !.pc = "attempt", !.step = "none"]
            ELSE IF g.pc = "persist"
            THEN [g EXCEPT !.cache = CachePut(d, g.key, g.code_out),
                           !.pc = "save", !.step = "none"]
            ELSE IF g.key \in DOMAIN d
                 THEN GeminiReturn(g, d[g.key], "last resort")
                 ELSE GeminiRaise(g))
    /\ UNCHANGED <<runvars, ext, adp, cache_file, lock, tmp_files>>

\* One turn of the attempt loop (:152-223): generate_content is called on
\* the current model and either raises or replies.
GeminiAttempt(p) ==
    /\ gem[p].pc = "attempt"
    /\ LET g == [gem[p] EXCEPT !.calls = @ + 1,
                               !.used = Append(@, ModelChain[gem[p].model])]
       IN  \/ \E e \in GeminiErrors : Goes(p, GeminiFailed(g, e))
           \/ \E text \in GeminiReplies :
                LET code_out == GeminiExtractCode(text)
                IN  IF ~Truthy(Strip(code_out))
                    THEN Goes(p, GeminiFailed(g,
                            [status |-> NoStatus,
                             msg |-> <<"Empty", " ", "code", " ", "block">>]))
                    ELSE IF g.prefer_cached
                    THEN Goes(p, [g EXCEPT !.code_out = code_out,
                                           !.pc = "persist",
                                           !.step = "ensure"])
                    ELSE Goes(p, GeminiReturn(g, code_out, "model"))
    /\ UNCHANGED <<runvars, ext, adp, cache_file, lock, tmp_files>>

\* _save_cache (:56-57): the lock is taken and the file opened for writing,
\* which empties it.
SaveCacheOpen(p) ==
    /\ gem[p].pc = "save"
    /\ lock = 0
    /\ lock' = p
    /\ cache_file' = [state |-> "truncated", data |-> <<>>]
    /\ Goes(p, [gem[p] EXCEPT !.pc = "saving"])
    /\ UNCHANGED <<runvars, ext, adp, tmp_files>>

\* _save_cache (:58): the dict is dumped, the file closed and the lock
\* released; the call returns code_out (:197).
SaveCacheWrite(p) ==
    /\ gem[p].pc = "saving"
    /\ lock = p
    /\ lock' = 0
    /\ cache_file' = [state |-> "json", data |-> gem[p].cache]
    /\ Goes(p, GeminiReturn(gem[p], gem[p].code_out, "model"))
    /\ UNCHANGED <<runvars, ext, adp, tmp_files>>

NextGemini ==
    \/ \E p \in DOMAIN gem : GeminiEnter(p)
    \/ \E p \in DOMAIN gem : EnsureCache(p)
    \/ \E p \in DOMAIN gem : CreateCache(p)
    \/ \E p \in DOMAIN gem : ReadCache(p)
    \/ \E p \in DOMAIN gem : GeminiAttempt(p)
    \/ \E p \in DOMAIN gem : SaveCacheOpen(p)
    \/ \E p \in DOMAIN gem : SaveCacheWrite(p)

\* The cache file when the callers start: absent, or holding an entry that
\* other runs left under another key.
CacheFilesAtStart ==
    {NoCacheFile,
     [state |-> "json",
      data  |-> CachePut(<<>>, PromptKey(<<"[system]">>, <<"[user 0]">>),
                         Code2)]}

\* One caller that makes its calls one after the other.
InitGemini ==
    /\ RunIdle
    /\ tmp_files = 0
    /\ ext = Off
    /\ adp = Off
    /\ lock = 0
    /\ cache_file \in CacheFilesAtStart
    /\ gem = <<GeminiIdle(MaxGeminiCalls, BOOLEAN)>>

SpecGemini == InitGemini /\ [][NextGemini]_vars

\* Two callers that each make one call, at the same time, with the same
\* cache file.
InitGeminiConcurrent ==
    /\ RunIdle
    /\ tmp_files = 0
    /\ ext = Off
    /\ adp = Off
    /\ lock = 0
    /\ cache_file \in CacheFilesAtStart
    /\ gem = [p \in 1..2 |->
                [GeminiIdle(1, {TRUE}) EXCEPT !.before = cache_file.data]]

SpecGeminiConcurrent == InitGeminiConcurrent /\ [][NextGemini]_vars

(***************************************************************************)
(* execute_plan_v1 with the cache of gemini_call_for_code in view          *)
(***************************************************************************)

\* Largest max_retries of the runs whose Gemini cache is followed.
MaxCachedBudget == 2

\* A code text that an earlier run left in the cache.
CachedCode == <<"print(cached)">>

\* The cache file when the run starts: absent, or holding the code an
\* earlier run of the same task got for its first step.
CacheFilesOfRun ==
    {NoCacheFile,
     [state |-> "json",
      data  |-> CachePut(<<>>,
                         PromptKey(InitialSystemPrompt(PlainPlan, PlainQuestions),
                                   BaseUserPrompt(PlainPlan, PlainQuestions)),
                         CachedCode)]}

\* A run of a task without S3 sources.
InitCached ==
    /\ pc = "start"
    /\ plan = PlainPlan
    /\ questions = PlainQuestions
    /\ timeout_for_execution = 1
    /\ max_retries \in 0..MaxCachedBudget
    /\ arg_max_retries = max_retries
    /\ Fresh
    /\ ext = Off
    /\ adp = Off
    /\ gem = <<>>
    /\ lock = 0
    /\ tmp_files = 0
    /\ cache_file \in CacheFilesOfRun

\* The key of the step in progress (new_gemini_llm.py:133).
StepKey == PromptKey(system_prompt, user_prompt)

\* Variant of CachedFor in which the lookup never finds an entry.
CachedForMisses(k) == None

\* cache.get(key) on what _load_cache gives (:137-138).
CachedFor(k) == CacheGet(FileContents, k)

\* plan_execution.py:51-52 / :99-100 into gemini_call_for_code up to the
\* cache lookup (new_gemini_llm.py:133-140): _load_cache creates the file
\* when it is absent; a truthy entry is returned at once and executed.
GeminiLookup ==
    /\ pc = "gemini"
    /\ IF Truthy(CachedFor(StepKey))
       THEN /\ code' = CachedFor(StepKey)
            /\ StartExecution(CachedFor(StepKey))
            /\ UNCHANGED cache_file
       ELSE /\ pc' = "gemini_net"
            /\ cache_file' = [state |-> "json", data |-> FileContents]
            /\ UNCHANGED <<code, attempt, system_prompt, user_prompt, ok,
                           output, error, chain, proc, hangs, elapsed,
                           executed, executions, result, returned>>
    /\ UNCHANGED <<args, max_retries, ext, adp, gem, lock, tmp_files>>

\* The rest of gemini_call_for_code (new_gemini_llm.py:142-234) and of the
\* step: the models are called; code they give is extracted, stored in the
\* cache (:185-188), returned and executed; when they all fail the call
\* raises, the key being absent from the cache (:230-234).
GeminiGenerate ==
    /\ pc = "gemini_net"
    /\ \E r \in GeminiOutcomes :
        IF ~r.raised
        THEN /\ code' = r.code
             /\ cache_file' = [state |-> "json",
                               data |-> CachePut(FileContents, StepKey,
                                                 r.code)]
             /\ StartExecution(r.code)
        ELSE /\ code' = code
             /\ chain' = <<>>
             /\ UNCHANGED <<ok, output, error, proc, hangs, elapsed,
                            executed, executions, cache_file>>
             /\ IF attempt = -1
                THEN /\ pc' = "done"
                     /\ result' = AllFailedDict
                     /\ returned' = "dict"
                     /\ UNCHANGED <<attempt, system_prompt, user_prompt>>
                ELSE LoopNext(code, error)
    /\ UNCHANGED <<args, max_retries, ext, adp, gem, lock, tmp_files>>

NextCached ==
    \/ Begin
    \/ ClaudeCall
    \/ OpenAICall
    \/ GeminiLookup
    \/ GeminiGenerate
    \/ Tick
    \/ ChildExit
    \/ ChildExitUndecodable

SpecCached == InitCached /\ [][NextCached]_vars

(***************************************************************************)
(* The three backend adapters, each entered once or more with its default  *)
(* budget: claude_call_for_code, openai_call_for_code_responses and        *)
(* gemini_call_for_code.                                                   *)
(***************************************************************************)

\* One adapter is entered: Claude or OpenAI with their defaults, or a
\* caller of Gemini with the default total_attempts, and per_model_attempts
\* either the default or as large as total_attempts.
InitBackends ==
    \/ InitAdapter
    \/ /\ RunIdle
       /\ tmp_files = 0
       /\ ext = Off
       /\ adp = Off
       /\ lock = 0
       /\ cache_file \in CacheFilesAtStart
       /\ \E per_model \in {PerModelAttempts, TotalAttempts} :
            gem = <<[GeminiIdle(MaxGeminiCalls, BOOLEAN) EXCEPT
                        !.budget.per_model_attempts = per_model]>>

NextBackends ==
    \/ NextAdapter
    \/ NextGemini

SpecBackends == InitBackends /\ [][NextBackends]_vars

(***************************************************************************)
(* execute_plan_v1 in a run where Claude and OpenAI give no code in any    *)
(* step, so that every step is served by gemini_call_for_code and its      *)
(* cache.                                                                  *)
(***************************************************************************)

\* Largest repair budget of such a run.
MaxRepairRounds == 3

\* A run of a task without S3 sources, with no cache file yet.
InitGeminiOnly ==
    /\ pc = "start"
    /\ plan = PlainPlan
    /\ questions = PlainQuestions
    /\ timeout_for_execution = 1
    /\ max_retries \in 0..MaxRepairRounds
    /\ arg_max_retries = max_retries
    /\ Fresh
    /\ ext = Off
    /\ adp = Off
    /\ gem = <<>>
    /\ lock = 0
    /\ tmp_files = 0
    /\ cache_file = NoCacheFile

\* The steps of SpecCached in which the calls of Claude and OpenAI raise or
\* return no code.
NextGeminiOnly ==
    \/ Begin
    \/ ClaudeCall /\ pc' = "openai"
    \/ OpenAICall /\ pc' = "gemini"
    \/ GeminiLookup
    \/ GeminiGenerate
    \/ Tick
    \/ ChildExit
    \/ ChildExitUndecodable

SpecGeminiOnly == InitGeminiOnly /\ [][NextGeminiOnly]_vars

(***************************************************************************)
(* Properties                                                              *)
(***************************************************************************)

InGeneration == pc \in {"claude", "openai", "gemini"}

\* The latest execution has ended and was judged, and it failed.
LatestAttemptFailed == proc # NoProc /\ ~ok

\* The text {"answer": 4}
AnswerText == Strip(StdoutAnswer)

\* C1 as stated: a run performs at most N repair rounds and at most 1 + N
\* executions, N being the max_retries the caller passed.
C1_RoundsWithinCallerBudget ==
    /\ Rounds <= arg_max_retries
    /\ executions <= 1 + arg_max_retries

\* C1 amended: the bound is the caller's N when neither the questions nor
\* the serialized plan hold "s3://" (in any letter case), and 8 when one
\* of them does.
C1_RoundsWithinEffectiveBudget ==
    LET n == IF S3Present(plan, questions) THEN S3Retries ELSE arg_max_retries
    IN  /\ Rounds <= n
        /\ executions <= 1 + n

\* C1 witness: a run without the S3 marker that used its whole budget of
\* N >= 1 rounds, executing in every one of them.
C1_BudgetSpent ==
    /\ pc = "done"
    /\ returned = "error"
    /\ ~S3Present(plan, questions)
    /\ arg_max_retries >= 1
    /\ Rounds = arg_max_retries
    /\ executions = 1 + arg_max_retries

\* C2: in every generation step the backends are consulted in the order
\* Claude, OpenAI, Gemini.  OpenAI is consulted only after Claude was, and
\* gave no code, in the same step; Gemini only after Claude and OpenAI
\* were, and gave no code.  A backend that returns code ends the step: the
\* code is executed and no later backend is called.  A backend that raises
\* (or returns an empty text) hands over to the next one, which is called
\* once: the call moves the step on to the execution, to the next backend
\* or out of the step.
C2_ChainStep ==
    /\ pc = "claude" => chain = <<>>
    /\ pc = "openai" =>
        /\ Len(chain) = 1
        /\ chain[1].backend = "claude"
        /\ chain[1].outcome \in {"raised", "empty"}
    /\ pc = "gemini" =>
        /\ Len(chain) = 2
        /\ chain[1].backend = "claude"
        /\ chain[2].backend = "openai"
        /\ chain[1].outcome \in {"raised", "empty"}
        /\ chain[2].outcome \in {"raised", "empty"}
    /\ pc = "claude" =>
        IF Truthy(code') THEN pc' = "running"
        ELSE pc' = "openai" /\ chain'[1].outcome = (IF code' = None THEN "raised" ELSE "empty")
    /\ pc = "openai" =>
        IF Truthy(code') THEN pc' = "running"
        ELSE pc' = "gemini" /\ chain'[2].outcome = (IF code' = None THEN "raised" ELSE "empty")
    /\ pc = "gemini" => pc' \in {"running", "claude", "done"}
    /\ pc' = "openai" => pc = "claude"
    /\ pc' = "gemini" => pc = "openai"

C2_BackendsInOrder == [][C2_ChainStep]_vars

\* C2 witness: a repair round in which Claude and OpenAI both raised and
\* Gemini is about to be called.
C2_BothRaisedInRepair ==
    /\ pc = "gemini"
    /\ attempt >= 0
    /\ chain[1].outcome = "raised"
    /\ chain[2].outcome = "raised"

\* C3: a child that never terminates is not waited for beyond the timeout:
\* the call is never still blocked in subprocess.run after more than
\* timeout_for_execution ticks.
C3_HangingChildIsTimedOut ==
    (pc = "running" /\ hangs) => elapsed <= timeout_for_execution

\* C4: a generation step in which Gemini, the last backend, fails as well
\* (Claude and OpenAI have failed when Gemini is called) ends the run with
\* a failure result; no backend call or execution follows.
C4_ChainExhaustionEndsRun ==
    [][(pc = "gemini" /\ pc' # "running")
          => (pc' = "done" /\ returned' \in {"dict", "error"})]_vars

\* A prompt p carries the text t: t occurs in p, as it is or as repr()
\* writes it.
Carries(p, t) ==
    \/ Contains(p, t)
    \/ \E q \in {"'", "\""} : Contains(p, ReprBody(t, q))

\* C5: the user prompt of every repair round carries the code and the
\* error text of the latest executed attempt, the base prompt and the plan.
C5_RepairPromptCarriesLatestAttempt ==
    (InGeneration /\ attempt >= 0) =>
        /\ Carries(user_prompt, executed)
        /\ Carries(user_prompt, error)
        /\ Carries(user_prompt, BaseUserPrompt(plan, questions))
        /\ Carries(user_prompt, plan)

\* C6: when the retry loop runs out (the return of plan_execution.py:121),
\* the value returned is the error text of the latest executed attempt, and
\* it is a non-empty text.
C6_ExhaustedReturnsLatestError ==
    (pc = "done" /\ returned = "error") =>
        /\ Rounds = max_retries
        /\ LatestAttemptFailed
        /\ result = ValidateProc(proc).error
        /\ result = error
        /\ Truthy(result)

\* C6 witness: the budget ran out after a round in which no backend gave
\* code, so the error returned comes from an earlier round's execution;
\* that execution exited non-zero with nothing on stderr.
C6_ExhaustedAfterSkippedRound ==
    /\ pc = "done"
    /\ returned = "error"
    /\ executions >= 2
    /\ code # executed
    /\ proc.returncode # 0
    /\ proc.stderr = <<>>

\* C7 as stated: with max_retries = 0 passed, once the first attempt has
\* failed validation the run is over: it returned that attempt's error, no
\* repair round began and nothing else was executed.
C7_ZeroBudgetNoRepair ==
    (arg_max_retries = 0 /\ (executions >= 2 \/ LatestAttemptFailed)) =>
        /\ pc = "done"
        /\ returned = "error"
        /\ result = ValidateProc(proc).error
        /\ Rounds = 0
        /\ executions = 1

\* C7 amended: the same, for a plan and questions without the S3 marker.
C7_ZeroBudgetNoRepairWithoutS3 ==
    ~S3Present(plan, questions) => C7_ZeroBudgetNoRepair

\* C7 witness: such a run that ended on the failure of its first attempt.
C7_ZeroBudgetFailed ==
    /\ arg_max_retries = 0
    /\ ~S3Present(plan, questions)
    /\ pc = "done"
    /\ returned = "error"
    /\ proc.returncode = 0
    /\ proc.stdout = StdoutNotJson

\* The first attempt exited 0 with `out` on stdout.
FirstAttemptPrinted(out) ==
    executions = 1 /\ proc.returncode = 0 /\ proc.stdout = out

\* C8 as stated: a first script that exits 0 and prints the bare text 4 is
\* not accepted.
C8_BareFourNotAccepted ==
    FirstAttemptPrinted(StdoutFour) => ~(pc = "done" /\ returned = "output")

\* C8 amended: a first script that exits 0 and prints the bare text 4 is
\* accepted and the run returns the text 4 without a repair round; a first
\* script that exits 0 and prints text that is no JSON value is not
\* accepted; and when the script of the first repair round exits 0 and
\* prints {"answer": 4} the run returns that text.
C8_FourAcceptedNonJsonRepaired ==
    /\ FirstAttemptPrinted(StdoutFour) =>
        /\ pc = "done"
        /\ returned = "output"
        /\ result = <<"4">>
        /\ Rounds = 0
    /\ FirstAttemptPrinted(StdoutNotJson) =>
        /\ ~ok
        /\ returned # "output"
        /\ IF max_retries = 0 THEN pc = "done" ELSE Rounds >= 1
    /\ (executions = 2 /\ Rounds = 1 /\ proc.returncode = 0
            /\ proc.stdout = StdoutAnswer) =>
        /\ pc = "done"
        /\ returned = "output"
        /\ result = AnswerText

\* C8 witness: the first script printed text that is no JSON value, one
\* repair round followed, its script printed {"answer": 4} and the run
\* returned that text.
C8_RepairedOnce ==
    /\ pc = "done"
    /\ returned = "output"
    /\ result = AnswerText
    /\ executions = 2
    /\ Rounds = 1
    /\ Contains(user_prompt, <<"Invalid JSON output: ">>)
    /\ Contains(user_prompt, Strip(StdoutNotJson))

\* The examples of C9: a non-zero exit fails even with JSON on stdout, an
\* empty stdout and a stdout with trailing text fail, and {"a": 1} is
\* accepted and returned as that text.
C9_Examples ==
    /\ proc.returncode # 0 => ~ok
    /\ proc.stdout = <<>> => ~ok
    /\ proc.stdout = StdoutExtraText => ~ok
    /\ (proc.returncode = 0 /\ proc.stdout = StdoutObject) =>
        ok /\ output = StdoutObject

\* C9 as stated: ok holds exactly when the exit code is 0 and stdout is one
\* JSON value and nothing else, and on success the output is the stdout
\* text itself.
C9_OutputIsStdout ==
    (pc = "rv_done" /\ returned = "tuple") =>
        /\ ok <=> (proc.returncode = 0 /\ JsonLoadsOk(proc.stdout))
        /\ ok => output = proc.stdout
        /\ C9_Examples

\* C9 amended: ok holds exactly when the exit code is 0 and stdout with its
\* leading and trailing whitespace removed is one JSON value, and on
\* success the output is that stripped text (a text, not a parsed value).
C9_OutputIsStrippedStdout ==
    (pc = "rv_done" /\ returned = "tuple") =>
        /\ ok <=> (proc.returncode = 0 /\ JsonLoadsOk(Strip(proc.stdout)))
        /\ ok => output = Strip(proc.stdout)
        /\ C9_Examples

\* C9 witness: a child that exited 0 with {"answer": 4} and a newline on
\* stdout was accepted, with the output lacking the newline.
C9_AcceptedWithNewline ==
    /\ pc = "rv_done"
    /\ ok
    /\ proc.stdout = StdoutAnswer
    /\ output = AnswerText
    /\ output # proc.stdout

\* C10: no call of execute_plan_v1 ends by raising: every run that ends
\* returns a value.
C10_NeverRaises == returned # "raised"

\* The caller p has just returned from a call that directly follows a call
\* of its own with the same prompt pair that returned code, both with the
\* cache in use.
RepeatedCall(p) ==
    /\ gem[p].pc = "done"
    /\ gem[p].prefer_cached
    /\ gem[p].prev.prefer_cached
    /\ gem[p].prev.returned = "code"
    /\ gem[p].prev.key = gem[p].key

\* C11: a call of gemini_call_for_code that directly follows a call with
\* the same prompt pair which returned code returns the identical code and
\* makes no network call.
C11_RepeatedCallServedFromCache ==
    \A p \in DOMAIN gem :
        RepeatedCall(p) =>
            /\ gem[p].returned = "code"
            /\ gem[p].result = gem[p].prev.result
            /\ gem[p].calls = 0

\* A repeated call has returned the code that the first call got from a
\* model.
C11_SecondCallDone ==
    \E p \in DOMAIN gem :
        /\ RepeatedCall(p)
        /\ gem[p].source = "cache"
        /\ gem[p].result = gem[p].prev.result
        /\ gem[p].key \in DOMAIN cache_file.data

\* Every caller has finished its calls.
AllCallsDone == \A p \in DOMAIN gem : gem[p].done = gem[p].allowed

\* C12: when concurrent calls have all finished, the cache file is intact,
\* it holds an entry for the prompt pair of every call that got code from a
\* model, and every entry it held before the calls is still there.
C12_NoEntryLost ==
    AllCallsDone =>
        /\ cache_file.state = "json"
        /\ \A p \in DOMAIN gem :
            /\ (gem[p].returned = "code" /\ gem[p].source = "model") =>
                    gem[p].key \in DOMAIN cache_file.data
            /\ \A k \in DOMAIN gem[p].before :
                    /\ k \in DOMAIN cache_file.data
                    /\ cache_file.data[k] = gem[p].before[k]

\* The cache file holds a non-empty entry for the prompt pair of the step
\* in progress.
StepIsCached ==
    /\ cache_file.state = "json"
    /\ StepKey \in DOMAIN cache_file.data
    /\ Truthy(cache_file.data[StepKey])

\* A backend is about to be called over the network.
AtNetworkCall == pc \in {"claude", "openai", "gemini_net"}

\* With the step's pair in the cache, the only step taken is the one that
\* hands the cached code to the executor.
C13_NoCallOnHit ==
    (StepIsCached /\ (AtNetworkCall \/ pc = "gemini")) =>
        /\ pc = "gemini"
        /\ pc' = "running"
        /\ executed' = cache_file.data[StepKey]

\* C13 as stated: while the cache holds an entry for the prompt pair of the
\* step in progress, the step makes no network call to any backend and
\* hands the cached code on.
C13_CacheHitBypassesChain == [][C13_NoCallOnHit]_vars

\* With the step's pair in the cache, gemini_call_for_code hands the cached
\* code on and leaves the cache file as it is.
C13_GeminiServesHit ==
    (StepIsCached /\ pc \in {"gemini", "gemini_net"}) =>
        /\ pc = "gemini"
        /\ pc' = "running"
        /\ code' = cache_file.data[StepKey]
        /\ executed' = cache_file.data[StepKey]
        /\ cache_file' = cache_file

\* C13 amended: when the cache holds an entry for the prompt pair of a step
\* and the step reaches gemini_call_for_code, Claude and OpenAI having
\* failed, the step gets the cached code and no Gemini model is called.
C13_CacheHitBypassesGeminiModels == [][C13_GeminiServesHit]_vars

\* The code an earlier run cached is being executed after Claude and OpenAI
\* failed in the first step.
C13_CachedCodeRunning ==
    /\ pc = "running"
    /\ StepIsCached
    /\ attempt = -1
    /\ executed = CachedCode

\* C14: an adapter that returns, returns a code text that is not empty and
\* not only whitespace; for every other reply it raises.
C14_NeverReturnsEmpty ==
    (adp.pc = "done" /\ adp.returned = "code") => Truthy(Strip(adp.result))

\* C15: once _run_and_validate_json has returned or raised, the script file
\* it created is gone.
C15_ScriptFileRemoved == pc = "rv_done" => tmp_files = 0

\* A line has the shape of a start of code: after its indentation comes
\* `from NAME`, `import NAME`, `def NAME`, `class NAME`, a comment sign or
\* the three quotes that open a docstring.
CodeStartShape(ln) ==
    LET rest == SubSeq(ln, SkipSpace(ln, 1), Len(ln))
        Opens(kw) ==
            /\ At(rest, 1) = kw
            /\ At(rest, 2) \in Whitespace
            /\ \E k \in 3..Len(rest) :
                /\ rest[k] \in WordElements
                /\ \A m \in 2..(k - 1) : rest[m] \in Whitespace
    IN  \/ \E kw \in {"from", "import", "def", "class"} : Opens(kw)
        \/ At(rest, 1) = "#"
        \/ \E q \in {"\"", "'"} : \A k \in 1..3 : At(rest, k) = q

\* The text from the first line of t that has the shape of a start of
\* code, to the end, trimmed; the trimmed t when no line has it.
FromFirstCodeLine(t) ==
    LET lines == SplitLines(Strip(t))
        Starts == {i \in 1..Len(lines) : CodeStartShape(lines[i])}
        first == CHOOSE i \in Starts : \A k \in Starts : i <= k
    IN  IF Starts = {} THEN Strip(t)
        ELSE Strip(JoinLines(SubSeq(lines, first, Len(lines))))

\* C16: for a reply that holds one or more fenced blocks, every backend's
\* extractor returns exactly the contents of the last fenced block, trimmed,
\* whatever precedes the block.
C16_LastFencedBlockContents ==
    (ext.pc = "done" /\ ext.kind = "fenced") =>
        /\ ext.claude = Strip(ext.body)
        /\ ext.openai = Strip(ext.body)
        /\ ext.gemini = Strip(ext.body)

\* C17: for a reply without a fenced block, the extractor returns the text
\* from the first line with an import/def/class/comment/docstring-start
\* shape to the end, trimmed, and the trimmed text when no line has that
\* shape.
C17_FromFirstCodeLine ==
    (ext.pc = "done" /\ ext.kind = "plain") =>
        /\ ext.claude = FromFirstCodeLine(ext.raw)
        /\ ext.gemini = FromFirstCodeLine(ext.raw)

\* A step in which the running attempt ends with exit code 0 and a stdout
\* that, stripped, is one JSON value.
AttemptValidates ==
    /\ pc = "running"
    /\ proc' # NoProc
    /\ proc'.returncode = 0
    /\ JsonLoadsOk(Strip(proc'.stdout))

\* A run that returned an output returned the stripped stdout of an attempt
\* that exited with code 0 and printed one JSON value.
C18_SuccessOnlyIfValid ==
    returned = "output" =>
        /\ proc # NoProc
        /\ proc.returncode = 0
        /\ JsonLoadsOk(Strip(proc.stdout))
        /\ result = Strip(proc.stdout)

\* The step in which an attempt validates returns its output, and a run
\* that has ended takes no step.
C18_ReturnsAtOnce ==
    /\ AttemptValidates =>
        /\ pc' = "done"
        /\ returned' = "output"
        /\ result' = Strip(proc'.stdout)
    /\ pc # "done"

C19_ExecutionFollowsExtraction ==
    executions' # executions => AtNetworkCall

\* C19: every execution is started by a step in which a backend replied and
\* the reply went through the extractor; in particular no code text is
\* executed again without a new extractor pass.
C19_ExecutedCodeFreshlyExtracted == [][C19_ExecutionFollowsExtraction]_vars

\* C20: the remaining attempt budget goes down by exactly one per model
\* call made: whenever a model is about to be called for the first time
\* the budget left is total_attempts less the calls made so far, and a call
\* that fails with its budget spent has made total_attempts model calls.
C20_OneAttemptPerModelCall ==
    \A p \in DOMAIN gem :
        /\ (gem[p].pc = "attempt" /\ gem[p].i = 1) =>
                gem[p].attempts_left = TotalAttempts - gem[p].calls
        /\ (gem[p].returned = "raised" /\ gem[p].attempts_left <= 0) =>
                gem[p].calls = TotalAttempts

\* Every network call of the finished call of caller p failed: the call did
\* not end by returning what a model replied.
AllGeminiCallsFailed(p) ==
    /\ gem[p].pc = "done"
    /\ gem[p].calls > 0
    /\ gem[p].source # "model"

\* The network calls of an adapter stay within its attempt budget.
WithinAttemptBudget ==
    /\ adp.pc # "off" => adp.calls <= adp.max_retries
    /\ \A p \in DOMAIN gem : gem[p].calls <= gem[p].budget.total_attempts

\* The Claude or OpenAI adapter whose calls all failed has raised.
ExhaustedAdapterRaised ==
    (adp.pc = "done" /\ adp.attempt = adp.calls) => adp.returned = "raised"

\* C21 as stated: each adapter makes at most its attempt budget of network
\* calls in one call (3 for Claude, 5 for OpenAI, 6 for Gemini), and when
\* all of them failed it has raised, not returned.
C21_ExhaustedBackendRaises ==
    /\ WithinAttemptBudget
    /\ ExhaustedAdapterRaised
    /\ \A p \in DOMAIN gem :
        AllGeminiCallsFailed(p) => gem[p].returned = "raised"

\* C21, amended: each adapter makes at most its attempt budget of network
\* calls in one call; when all of them failed, Claude and OpenAI have
\* raised, and Gemini has raised unless the cache file holds an entry for
\* the prompt pair, which it has then returned as its last resort.
C21_ExhaustedBackendRaisesOrLastResort ==
    /\ WithinAttemptBudget
    /\ ExhaustedAdapterRaised
    /\ \A p \in DOMAIN gem :
        AllGeminiCallsFailed(p) =>
            IF gem[p].key \in DOMAIN cache_file.data
            THEN /\ gem[p].returned = "code"
                 /\ gem[p].source = "last resort"
                 /\ gem[p].result = cache_file.data[gem[p].key]
            ELSE gem[p].returned = "raised"

\* A Gemini call has spent all six attempts on failures and returned the
\* cached entry as its last resort.
C21_LastResortAfterSixFailures ==
    \E p \in DOMAIN gem :
        /\ AllGeminiCallsFailed(p)
        /\ gem[p].calls = gem[p].budget.total_attempts
        /\ gem[p].source = "last resort"

\* The delay that the formula of the claim gives for the n-th retry.
ExponentialDelay(n) == Min(2 ^ (n - 1), MaxBackoff)

\* A Gemini caller that sleeps before a retry sleeps the exponential delay
\* of the number of calls made so far on the current model.
GeminiSleepsExponentially ==
    \A p \in DOMAIN gem :
        (p \in DOMAIN gem' /\ Len(gem'[p].slept) = Len(gem[p].slept) + 1) =>
            /\ gem'[p].model = gem[p].model
            /\ gem'[p].slept[Len(gem'[p].slept)] = ExponentialDelay(gem[p].i)

\* C22 as stated: in every adapter the delay slept before the n-th
\* consecutive retry is min(2^(n-1), 8) seconds before jitter: 1, 2, 4, 8,
\* 8, ...
C22_EveryBackendBacksOffExponentially ==
    /\ [](adp.pc # "off" =>
            \A n \in 1..Len(adp.slept) : adp.slept[n] = ExponentialDelay(n))
    /\ [][GeminiSleepsExponentially]_vars

\* C22, amended: the Gemini adapter sleeps min(2^(n-1), 8) seconds (before
\* jitter) before the n-th consecutive retry on the same model; the Claude
\* adapter sleeps its fixed retry_delay of 2 seconds before every retry and
\* the OpenAI adapter its fixed retry_delay of 1 second.
C22_OnlyGeminiBacksOffExponentially ==
    /\ [](adp.pc # "off" =>
            /\ adp.retry_delay = IF adp.backend = "claude" THEN ClaudeRetryDelay
                                 ELSE OpenAIRetryDelay
            /\ \A n \in 1..Len(adp.slept) : adp.slept[n] = adp.retry_delay)
    /\ [][GeminiSleepsExponentially]_vars

\* A Gemini call has retried five times on one model and reached the cap:
\* it slept 1, 2, 4, 8 and 8 seconds.
C22_BackoffReachedCap ==
    \E p \in DOMAIN gem :
        /\ gem[p].slept = <<1, 2, 4, 8, 8>>
        /\ gem[p].used = [n \in 1..6 |-> ModelChain[1]]

\* The place of model m in MODEL_CHAIN.
ChainIndex(m) == CHOOSE k \in 1..Len(ModelChain) : ModelChain[k] = m

\* The models a call has used so far are in the order of MODEL_CHAIN, and
\* none is used again after a later one.
UsedInChainOrder ==
    \A p \in DOMAIN gem :
        \A j \in 1..(Len(gem[p].used) - 1) :
            ChainIndex(gem[p].used[j]) <= ChainIndex(gem[p].used[j + 1])

\* What a call on the current model that failed leads to: a non-retryable
\* error, or a retryable one on the model's last attempt, gives the model
\* up for the next one, or ends the calls; a retryable error with attempts
\* left on the model goes on with the same model.
FailedCallMovesOn ==
    \A p \in DOMAIN gem :
        LET g == gem[p]
            h == gem'[p]
            e == h.last_err
        IN  (/\ p \in DOMAIN gem'
             /\ g.pc = "attempt"
             /\ h.calls = g.calls + 1
             /\ h.pc \in {"attempt", "last"}) =>
                /\ h.used = Append(g.used, ModelChain[g.model])
                /\ IF (e.status \in {429, 500, 502, 503, 504, 0, NoStatus}
                        \/ Has(MessageLower(e.msg), "internal")
                        \/ Has(MessageLower(e.msg), "timeout"))
                      /\ g.i < g.model_attempts
                   THEN /\ h.pc = "attempt"
                        /\ h.model = g.model
                        /\ h.i = g.i + 1
                        /\ h.model_attempts = g.model_attempts
                   ELSE \/ h.pc = "last"
                        \/ /\ h.pc = "attempt"
                           /\ h.model = g.model + 1
                           /\ h.i = 1

\* C23: gemini_call_for_code uses the models of MODEL_CHAIN in order and
\* never goes back to one; an error that _should_retry classifies as
\* non-retryable ends the current model at once and the next call, if any,
\* is on the next model, while a retryable error is retried on the same
\* model until that model's attempts are spent.
C23_ModelsInOrderNeverRevisited ==
    [](UsedInChainOrder) /\ [][FailedCallMovesOn]_vars

\* A call was retried once on the first model after a retryable error, then
\* got a non-retryable error there and made its third call on the second
\* model.
C23_FellBackAfterNonRetryable ==
    \E p \in DOMAIN gem :
        /\ gem[p].used = <<ModelChain[1], ModelChain[1], ModelChain[2]>>
        /\ gem[p].slept = <<InitialBackoff>>
        /\ gem[p].budget.per_model_attempts = PerModelAttempts

\* _run_and_validate_json has returned a failed verdict on its child.
ValidationFailed == pc = "rv_done" /\ returned = "tuple" /\ ~ok

\* C24 as stated: the error of a failed validation is, after a non-zero
\* exit, the captured stderr, or the generic message when stderr is empty;
\* after exit 0 with unparsable stdout it contains the parse diagnostic and
\* both captured streams; it is never empty or None.
C24_ErrorIsCapturedStderr ==
    ValidationFailed =>
        /\ error # None
        /\ error # <<>>
        /\ proc.returncode # 0 =>
                error = IF proc.stderr # <<>> THEN proc.stderr
                        ELSE NonZeroExitMessage
        /\ proc.returncode = 0 =>
                /\ ~JsonLoadsOk(Strip(proc.stdout))
                /\ Contains(error, JsonErrorText(Strip(proc.stdout)))
                /\ Contains(error, proc.stdout)
                /\ Contains(error, proc.stderr)

\* C24, amended: the error of a failed validation is, after a non-zero
\* exit, the captured stderr with its leading and trailing whitespace
\* removed, or the generic message when nothing is left of it; after exit 0
\* with unparsable stdout it is "Invalid JSON output: ", the parse
\* diagnostic and both captured streams, each with its leading and trailing
\* whitespace removed; it is never empty or None.
C24_ErrorIsStrippedStderr ==
    ValidationFailed =>
        /\ error # None
        /\ error # <<>>
        /\ proc.returncode # 0 =>
                error = IF Strip(proc.stderr) # <<>> THEN Strip(proc.stderr)
                        ELSE <<"Script exited with non-zero status.">>
        /\ proc.returncode = 0 =>
                /\ ~JsonLoadsOk(Strip(proc.stdout))
                /\ Contains(error, <<"Invalid JSON output: ">>
                                    \o JsonErrorText(Strip(proc.stdout)))
                /\ Contains(error, <<"STDOUT:", "\n">> \o Strip(proc.stdout)
                                    \o <<"\n", "STDERR:">>)
                /\ Contains(error, <<"STDERR:", "\n">> \o Strip(proc.stderr))

\* A child that exited 1 with only whitespace on stderr was rejected with
\* the generic message.
C24_WhitespaceStderrGivesGenericMessage ==
    /\ ValidationFailed
    /\ proc.returncode = 1
    /\ proc.stderr = <<" ", "\n">>
    /\ error = NonZeroExitMessage

\* The second repair round is in progress, and the first one, served by
\* Gemini, yielded the code and the error text of the initial attempt: the
\* round has the prompts of the first, for which the cache holds the code
\* that Gemini gave, and the cache holds nothing but the entries of the
\* initial step and of the first round.
InStuckRound ==
    /\ attempt = 1
    /\ Truthy(CachedFor(StepKey))
    /\ Cardinality(DOMAIN cache_file.data) = 2
    /\ \/ pc \in {"claude", "openai", "gemini"}
       \/ /\ pc = "running"
          /\ user_prompt = BuildRepairPrompt(plan, questions, code, error).user

\* C25 as stated, for the first repair round: in a run where Claude and
\* OpenAI fail in every step, once a repair round served by Gemini has
\* yielded the same code and the same error text as the attempt before it,
\* the next round is answered from the cache, and it ends either in a
\* further round that the cache will answer with the same code, or, the
\* budget being spent, in the failure of the run.
C25_StuckRunStaysStuck ==
    [][InStuckRound =>
        \/ InStuckRound'
        \/ /\ pc' = "claude"
           /\ attempt' = 2
           /\ Truthy(code')
           /\ CachedFor(StepKey)' = code'
        \/ /\ pc' = "done"
           /\ returned' \in {"error", "raised"}]_vars

\* The execution of a repair round served by Gemini ends with the error
\* text of the attempt before it, the code being that of the attempt before
\* it too, and a further round begins.
SameCodeAndErrorAgain ==
    /\ pc = "running"
    /\ attempt >= 0
    /\ user_prompt = BuildRepairPrompt(plan, questions, code, error).user
    /\ error' = error
    /\ pc' = "claude"

\* C25, amended: in a run where Claude and OpenAI fail in every step, when
\* a repair round served by Gemini yields the same code and the same error
\* text as the attempt before it, the next round has the same prompts and
\* the cache holds that code for them; the failing calls of Claude and
\* OpenAI change neither, and the Gemini step then returns the cached code
\* for execution without calling a model.
C25_NextRoundFromCache ==
    /\ [][SameCodeAndErrorAgain =>
            /\ attempt' = attempt + 1
            /\ StepKey' = StepKey
            /\ Truthy(code)
            /\ CachedFor(StepKey)' = code']_vars
    /\ [][(pc \in {"claude", "openai"} /\ pc' \in {"openai", "gemini"}) =>
            /\ StepKey' = StepKey
            /\ cache_file' = cache_file]_vars
    /\ [][(pc = "gemini" /\ attempt >= 0 /\ Truthy(CachedFor(StepKey))) =>
            /\ pc' = "running"
            /\ code' = CachedFor(StepKey)
            /\ executed' = CachedFor(StepKey)
            /\ cache_file' = cache_file]_vars

\* The second repair round runs the code of the first, which it got from
\* the cache: the cache holds the entries of the initial step and of the
\* first round only.
C25_SecondRoundRunsCachedCode ==
    /\ pc = "running"
    /\ attempt = 1
    /\ executed = CachedFor(StepKey)
    /\ user_prompt = BuildRepairPrompt(plan, questions, code, error).user
    /\ Cardinality(DOMAIN cache_file.data) = 2

\* C26: for every raw reply text, _clean_code of the Claude adapter,
\* _clean_code of the OpenAI adapter and _extract_code of the Gemini adapter
\* return the same code text.
C26_ExtractorsAgree ==
    ext.pc = "done" =>
        /\ ext.claude = ext.openai
        /\ ext.openai = ext.gemini

====
